---------------------------- MODULE Spec2Model ----------------------------
(***************************************************************************)
(* Model of stdpipe/catalogs.py: the catalogue retrieval get_cat_vizier,   *)
(* and the three cross-matching routines xmatch_objects, xmatch_skybot and *)
(* xmatch_ned.  The remote services (Vizier, XMatch, SkyBoT, NED) are the  *)
(* environment: every query is answered by a nondeterministic choice among *)
(* the answers the service can give, an exception included.                *)
(*                                                                         *)
(* Numbers.  Magnitudes are fixed-point integers in milli-magnitudes,      *)
(* polynomial coefficients in micro-magnitudes (the source's float         *)
(* coefficients rounded to six decimals), products are rounded down.       *)
(* Angles of the cross-match are integers in arcseconds.                   *)
(***************************************************************************)
EXTENDS Integers, Sequences, FiniteSets, TLC

VARIABLES
    pc,         \* position of the running call: "idle", a step name, "done"
    fn,         \* the function that was called
    args,       \* the arguments of the call
    locals,     \* local variables of the call (vizier_id, name, columns, ...)
    queries,    \* the remote queries issued by the call, in order
    responses,  \* what the service answered to each query, in order
    cats,       \* get_cat_vizier: the current query result
    xcat,       \* xmatch_*: the table (or list of tables) being built
    nmatch,     \* xmatch_skybot: number of calls of spherical_match
    printed,    \* what the call printed, in order
    outcome,    \* "running", "returned" or "raised"
    result,     \* the returned value (outcome = "returned")
    exc         \* the class of the propagating exception (outcome = "raised")

vars == <<pc, fn, args, locals, queries, responses, cats, xcat, nmatch,
          printed, outcome, result, exc>>

-----------------------------------------------------------------------------
(* Bounds of the model *)

\* Largest number of rows of a table received from a service.
MaxRows == 1

\* Largest number of tables in one Vizier answer.
MaxTables == 2

\* Largest number of objects in the object list handed to xmatch_*.
MaxObj == 2

-----------------------------------------------------------------------------
(* Values *)

None == [kind |-> "None"]

Raise(e) == [kind |-> "raise", exc |-> e]

TableList(ts) == [kind |-> "TableList", tables |-> ts]

\* A table: the set of its column names, its rows (each a function from
\* the column names to values) and its metadata (a set of key/value pairs).
Table(cols, rows, meta) ==
    [kind |-> "Table", cols |-> cols, rows |-> rows, meta |-> meta]

\* floor(a * b / d) for d > 0, computed without forming a * b.
MulDiv(a, b, d) == (a \div d) * b + ((a % d) * b) \div d

\* numpy.polyval(p, x) by Horner's rule: p in micro-magnitudes, highest
\* degree first, x in milli-magnitudes; the value is in micro-magnitudes.
RECURSIVE horner(_, _, _, _)
horner(p, x, i, y) ==
    IF i > Len(p) THEN y ELSE horner(p, x, i + 1, MulDiv(y, x, 1000) + p[i])

polyval(p, x) == horner(p, x, 1, 0)

\* Python's exception classes that appear here, each with its base class.
ExcBase ==
    [RuntimeError |-> "Exception", NotImplementedError |-> "RuntimeError",
     LookupError |-> "Exception", KeyError |-> "LookupError",
     IndexError |-> "LookupError", OSError |-> "Exception",
     ConnectionError |-> "OSError", TimeoutError |-> "OSError",
     ValueError |-> "Exception", RemoteServiceError |-> "Exception",
     Exception |-> "BaseException"]

\* isinstance(e, cls) for an exception of class e.
RECURSIVE IsInstance(_, _)
IsInstance(e, cls) ==
    \/ e = cls
    \/ e \in DOMAIN ExcBase /\ IsInstance(ExcBase[e], cls)

\* The exception classes a remote query raises in the model.
ServiceErrors ==
    {"RuntimeError", "NotImplementedError", "KeyError", "IndexError",
     "ConnectionError", "TimeoutError", "OSError", "ValueError",
     "RemoteServiceError"}

-----------------------------------------------------------------------------
(* The catalogue descriptors *)

catalogs ==
    [ps1 |-> [vizier |-> "II/349/ps1", name |-> "PanSTARRS DR1", extra |-> <<>>],
     gaiadr2 |-> [vizier |-> "I/345/gaia2", name |-> "Gaia DR2",
                  extra |-> <<"E(BR/RP)">>],
     gaiaedr3 |-> [vizier |-> "I/350/gaiaedr3", name |-> "Gaia EDR3",
                   extra |-> <<>>],
     gaiadr3syn |-> [vizier |-> "I/360/syntphot", name |-> "Gaia EDR3",
                     extra |-> <<"**", "_RAJ2000", "_DEJ2000">>],
     usnob1 |-> [vizier |-> "I/284/out", name |-> "USNO-B1", extra |-> <<>>],
     gsc |-> [vizier |-> "I/271/out", name |-> "GSC 2.2", extra |-> <<>>],
     skymapper |-> [vizier |-> "II/358/smss", name |-> "SkyMapper DR1.1",
                    extra |-> <<>>],
     vsx |-> [vizier |-> "B/vsx/vsx", name |-> "AAVSO VSX", extra |-> <<>>],
     apass |-> [vizier |-> "II/336/apass9", name |-> "APASS DR9",
                extra |-> <<>>],
     sdss |-> [vizier |-> "V/147/sdss12", name |-> "SDSS DR12",
               extra |-> <<"_RAJ2000", "_DEJ2000">>],
     atlas |-> [vizier |-> "J/ApJ/867/105/refcat2", name |-> "ATLAS-REFCAT2",
                extra |-> <<"_RAJ2000", "_DEJ2000", "e_Gmag", "e_gmag",
                            "e_rmag", "e_imag", "e_zmag", "e_Jmag",
                            "e_Kmag">>]]

\* A raw Vizier identifier, not a short name of the descriptor table.
RawCatalog == "I/239/hip_main"

\* The catalogue selectors the calls of the model are made with.
CatalogSelectors == DOMAIN catalogs \cup {RawCatalog}

-----------------------------------------------------------------------------
(* Tables *)

\* cat[name] = vals: add the column, or replace it when it exists.
WithColumn(t, name, vals) ==
    [t EXCEPT !.cols = @ \cup {name},
              !.rows = [i \in DOMAIN t.rows |->
                          [c \in DOMAIN t.rows[i] \cup {name} |->
                              IF c = name THEN vals[i] ELSE t.rows[i][c]]]]

\* Table.rename_column: the column keeps its values under the new name;
\* a new name that is already a column of the table is a KeyError.
rename_column(t, old, new) ==
    IF t.kind # "Table" THEN t
    ELSE IF old \notin t.cols \/ new \in t.cols THEN Raise("KeyError")
    ELSE [t EXCEPT !.cols = (@ \ {old}) \cup {new},
                   !.rows = [i \in DOMAIN t.rows |->
                               [c \in (DOMAIN t.rows[i] \ {old}) \cup {new} |->
                                   IF c = new THEN t.rows[i][old]
                                   ELSE t.rows[i][c]]]]

\* Table.rename_columns: the renames are done one after the other, and the
\* first that fails ends the call.
RECURSIVE rename_columns(_, _, _)
rename_columns(t, names, new_names) ==
    IF names = <<>> THEN t
    ELSE rename_columns(rename_column(t, Head(names), Head(new_names)),
                        Tail(names), Tail(new_names))

\* Lines 99-101: the fix of _RAJ2000/_DEJ2000.
fix_radec(cat) ==
    IF "_RAJ2000" \in cat.cols /\ "_DEJ2000" \in cat.cols
       /\ ~("RAJ2000" \in cat.cols)
    THEN rename_columns(cat, <<"_RAJ2000", "_DEJ2000">>,
                        <<"RAJ2000", "DEJ2000">>)
    ELSE cat

-----------------------------------------------------------------------------
(* Augmentation of 'ps1' and 'atlas' *)

pB1 == <<103395, -492150, 1209382, 61925>>
pB2 == <<-257197, 921150, -824322, 61925>>
pV1 == <<-11453, -99, -465051, -7077>>
pV2 == <<12749, 57555, -90193, -7077>>
pR1 == <<4905, -46546, 78307, -84381>>
pR2 == <<-77824, 140903, -363492, -84381>>
pI1 == <<-22748, 48463, -46965, -194789>>
pI2 == <<25124, -48673, -1199591, -194789>>

\* A faulty variant of ps1_good: the upper bound of g-r is inclusive.
ps1_good_inclusive(r) ==
    LET good1 == (r.gmag - r.rmag > -500) /\ (r.gmag - r.rmag <= 2500)
        good2 == good1 /\ (r.rmag - r.imag > -500) /\ (r.rmag - r.imag < 2000)
        good3 == good2 /\ (r.imag - r.zmag > -500) /\ (r.imag - r.zmag < 1000)
    IN  good3

\* Lines 123-125: the validity flag of one row.
ps1_good(r) ==
    LET good1 == (r.gmag - r.rmag > -500) /\ (r.gmag - r.rmag < 2500)
        good2 == good1 /\ (r.rmag - r.imag > -500) /\ (r.rmag - r.imag < 2000)
        good3 == good2 /\ (r.imag - r.zmag > -500) /\ (r.imag - r.zmag < 1000)
    IN  good3

\* mag + 0.001*c0 + 0.001*c1*d + 0.001*c2*d^2 in milli-magnitudes.
quadratic(mag, c0, c1, c2, d) ==
    (mag * 1000 + c0 * 1000 + c1 * d + MulDiv(c2 * d, d, 1000)) \div 1000

augment_ps1(cat) ==
    LET R == cat.rows
        I == DOMAIN cat.rows
        gr(i) == R[i].gmag - R[i].rmag
        ri(i) == R[i].rmag - R[i].imag
        iz(i) == R[i].imag - R[i].zmag
        c1 == WithColumn(cat, "B", [i \in I |->
                (R[i].gmag * 1000 + polyval(pB1, gr(i)) + polyval(pB2, ri(i)))
                \div 1000])
        c2 == WithColumn(c1, "V", [i \in I |->
                (R[i].gmag * 1000 + polyval(pV1, gr(i)) + polyval(pV2, ri(i)))
                \div 1000])
        c3 == WithColumn(c2, "R", [i \in I |->
                (R[i].rmag * 1000 + polyval(pR1, gr(i)) + polyval(pR2, ri(i)))
                \div 1000])
        c4 == WithColumn(c3, "I", [i \in I |->
                (R[i].imag * 1000 + polyval(pI1, gr(i)) + polyval(pI2, iz(i)))
                \div 1000])
        c5 == WithColumn(c4, "good", [i \in I |-> ps1_good(R[i])])
        c6 == WithColumn(c5, "g_SDSS", [i \in I |->
                quadratic(R[i].gmag, 13, 145, 19, gr(i))])
        c7 == WithColumn(c6, "r_SDSS", [i \in I |->
                quadratic(R[i].rmag, -1, 4, 7, gr(i))])
        c8 == WithColumn(c7, "i_SDSS", [i \in I |->
                quadratic(R[i].imag, -5, 11, 10, gr(i))])
    IN  WithColumn(c8, "z_SDSS", [i \in I |-> R[i].zmag])

-----------------------------------------------------------------------------
(* Augmentation of 'gaiadr2' *)

pB == <<-59277, 422433, 626220, -11212>>
pV == <<1762, 156714, 31239, 41449>>
pR == <<20454, 54005, -313548, 20545>>
pI == <<5092, 70270, -702555, -27475>>
pCB == <<876404740, 5114022, -2733287, 0>>
pCV == <<98030495, 20582522, 869008, 0>>
pCR == <<347421905, 39424824, 862683, 0>>
pCI == <<79402871, 9176899, -782632, 0>>
pCstar == <<-4450, 57029, -28106, 1204778>>

\* The corrected G of the local gcorr is kept in units of 1e-7 mag, the
\* unit of the coefficients of lines 153-155; the catalogue's Gmag has the
\* resolution of a milli-magnitude.
ToFine(mmag) == mmag * 10000

\* Line 153, right-hand side:
\*   -0.047344 + 1.16405*g - 0.046799*g**2 + 0.0035015*g**3
gcorr_bright(g) ==
    LET m == g \div 10000
    IN  -473440 + MulDiv(11640500, m, 1000)
        - MulDiv(MulDiv(467990, m, 1000), m, 1000)
        + MulDiv(MulDiv(MulDiv(35015, m, 1000), m, 1000), m, 1000)

\* Line 154, right-hand side: g - 0.0032*(g - 6).
gcorr_mid(g) == g - MulDiv(g - ToFine(6000), 32, 10000)

\* Line 155, right-hand side: g - 0.032.
gcorr_faint(g) == g - 320000

\* A faulty variant of gaia_gcorr: the masks and the right-hand sides are computed
\* from the value corrected so far instead of from g.
gaia_gcorr_chained(g) ==
    LET gcorr0 == g
        gcorr1 == IF (gcorr0 > ToFine(2000)) /\ (gcorr0 < ToFine(6000))
                  THEN gcorr_bright(gcorr0) ELSE gcorr0
        gcorr2 == IF (gcorr1 > ToFine(6000)) /\ (gcorr1 < ToFine(16000))
                  THEN gcorr_mid(gcorr1) ELSE gcorr1
        gcorr3 == IF gcorr2 > ToFine(16000)
                  THEN gcorr_faint(gcorr2) ELSE gcorr2
    IN  gcorr3

\* Lines 152-155 for one row: gcorr starts as a copy of g, and the three
\* masked assignments follow, each mask and each right-hand side computed
\* from g.
gaia_gcorr(g) ==
    LET gcorr0 == g
        gcorr1 == IF (g > ToFine(2000)) /\ (g < ToFine(6000))
                  THEN gcorr_bright(g) ELSE gcorr0
        gcorr2 == IF (g > ToFine(6000)) /\ (g < ToFine(16000))
                  THEN gcorr_mid(g) ELSE gcorr1
        gcorr3 == IF g > ToFine(16000) THEN gcorr_faint(g) ELSE gcorr2
    IN  gcorr3

\* Lines 145 and 152-156: the local g after the correction, one value per
\* row, in units of 1e-7 mag.
gaia_g(cat) ==
    [i \in DOMAIN cat.rows |-> gaia_gcorr(ToFine(cat.rows[i].Gmag))]

augment_gaiadr2(cat) ==
    LET R == cat.rows
        I == DOMAIN cat.rows
        g == gaia_g(cat)
        bp_rp(i) == R[i].BPmag - R[i].RPmag
        \* Cstar in milli-units
        Cstar(i) == (R[i]["E_BR_RP_"] * 1000 - polyval(pCstar, bp_rp(i)))
                    \div 1000
        c1 == WithColumn(cat, "B", [i \in I |->
                (g[i] \div 10 + polyval(pB, bp_rp(i)) + polyval(pCB, Cstar(i)))
                \div 1000])
        c2 == WithColumn(c1, "V", [i \in I |->
                (g[i] \div 10 + polyval(pV, bp_rp(i)) + polyval(pCV, Cstar(i)))
                \div 1000])
        c3 == WithColumn(c2, "R", [i \in I |->
                (g[i] \div 10 + polyval(pR, bp_rp(i)) + polyval(pCR, Cstar(i)))
                \div 1000])
        c4 == WithColumn(c3, "I", [i \in I |->
                (g[i] \div 10 + polyval(pI, bp_rp(i)) + polyval(pCI, Cstar(i)))
                \div 1000])
        BV(i) == c4.rows[i].B - c4.rows[i].V
        c5 == WithColumn(c4, "gmag", [i \in I |->
                quadratic(c4.rows[i].B, -108, -485, -32, BV(i))])
        c6 == WithColumn(c5, "rmag", [i \in I |->
                quadratic(c5.rows[i].V, 82, -462, 41, BV(i))])
        c7 == WithColumn(c6, "g_SDSS", [i \in I |->
                (g[i] \div 10
                 - polyval(<<21349, -251710, -462450, 135180>>, bp_rp(i)))
                \div 1000])
        c8 == WithColumn(c7, "r_SDSS", [i \in I |->
                (g[i] \div 10
                 - polyval(<<-49465, -27464, 246620, -128790>>, bp_rp(i)))
                \div 1000])
    IN  WithColumn(c8, "i_SDSS", [i \in I |->
                (g[i] \div 10 - polyval(<<-101410, 647280, -296760>>, bp_rp(i)))
                \div 1000])

-----------------------------------------------------------------------------
(* Augmentation of 'skymapper', 'apass' and 'gaiadr3syn' *)

\* The loop "for _ in names: cat[pre + _ + post] = F(cat, _)", where the
\* new column is a copy of column  frompre + _ + frompost.
RECURSIVE copy_columns(_, _, _, _, _, _)
copy_columns(cat, names, pre, post, frompre, frompost) ==
    IF names = <<>> THEN cat
    ELSE copy_columns(
            WithColumn(cat, pre \o Head(names) \o post,
                [i \in DOMAIN cat.rows |->
                    cat.rows[i][frompre \o Head(names) \o frompost]]),
            Tail(names), pre, post, frompre, frompost)

augment_skymapper(cat) ==
    copy_columns(cat, <<"u", "g", "r", "i", "z">>, "", "_PS1", "", "PSF")

augment_apass(cat) ==
    LET R == cat.rows
        I == DOMAIN cat.rows
        gr(i) == R[i].g_mag - R[i].r_mag
        c1 == WithColumn(cat, "Rmag", [i \in I |->
                quadratic(R[i].r_mag, -157, -87, -14, gr(i))])
        c2 == WithColumn(c1, "e_Rmag", [i \in I |-> R[i].e_r_mag])
        c3 == WithColumn(c2, "Imag", [i \in I |->
                quadratic(R[i].i_mag, -354, -118, -4, gr(i))])
        c4 == WithColumn(c3, "e_Imag", [i \in I |-> R[i].e_i_mag])
    IN  copy_columns(c4, <<"B", "V", "R", "I">>, "", "", "", "mag")

\* Line 194 in a loop: e_<name>mag = 2.5/ln(10) * e_F<name> / F<name>, in
\* milli-magnitudes (2.5/ln(10) = 1.085736).
RECURSIVE flux_errors(_, _)
flux_errors(cat, names) ==
    IF names = <<>> THEN cat
    ELSE flux_errors(
            WithColumn(cat, "e_" \o Head(names) \o "mag",
                [i \in DOMAIN cat.rows |->
                    (1085736 * cat.rows[i]["e_F" \o Head(names)])
                    \div (1000 * cat.rows[i]["F" \o Head(names)])]),
            Tail(names))

pg == <<-30414, -99600, -2910>>
pr == <<-9567, 14925, -3928>>
pi == <<-10803, 11249, 12743>>
pz == <<-3190, 65380, 7696>>

Bands == <<"U", "B", "V", "R", "I", "u", "g", "r", "i", "z", "y">>

augment_gaiadr3syn(cat) ==
    LET c0 == flux_errors(cat, Bands)
        R == c0.rows
        I == DOMAIN c0.rows
        gr(i) == R[i].gmag - R[i].rmag
        c1 == WithColumn(c0, "g_ps1", [i \in I |->
                (R[i].gmag * 1000 + polyval(pg, gr(i))) \div 1000])
        c2 == WithColumn(c1, "r_ps1", [i \in I |->
                (R[i].rmag * 1000 + polyval(pr, gr(i))) \div 1000])
        c3 == WithColumn(c2, "i_ps1", [i \in I |->
                (R[i].imag * 1000 + polyval(pi, gr(i))) \div 1000])
    IN  WithColumn(c3, "z_ps1", [i \in I |->
                (R[i].zmag * 1000 + polyval(pz, gr(i))) \div 1000])

\* A faulty variant of augment: every short name of the descriptor table without a
\* transform of its own gets the SDSS copy of 'ps1'.
augment_any_known(catalog, cat) ==
    IF catalog = "ps1" \/ catalog = "atlas" THEN augment_ps1(cat)
    ELSE IF catalog = "gaiadr2" THEN augment_gaiadr2(cat)
    ELSE IF catalog = "skymapper" THEN augment_skymapper(cat)
    ELSE IF catalog = "apass" THEN augment_apass(cat)
    ELSE IF catalog = "gaiadr3syn" THEN augment_gaiadr3syn(cat)
    ELSE IF catalog \in DOMAIN catalogs
    THEN WithColumn(cat, "g_SDSS", [i \in DOMAIN cat.rows |-> cat.rows[i].gmag])
    ELSE cat

\* Lines 105-206: the augmentation chosen by the catalogue selector.
augment(catalog, cat) ==
    IF catalog = "ps1" \/ catalog = "atlas" THEN augment_ps1(cat)
    ELSE IF catalog = "gaiadr2" THEN augment_gaiadr2(cat)
    ELSE IF catalog = "skymapper" THEN augment_skymapper(cat)
    ELSE IF catalog = "apass" THEN augment_apass(cat)
    ELSE IF catalog = "gaiadr3syn" THEN augment_gaiadr3syn(cat)
    ELSE cat

-----------------------------------------------------------------------------
(* What the Vizier service answers *)

CoordCols == {"RAJ2000", "DEJ2000", "_RAJ2000", "_DEJ2000"}

CoordValue == [c \in CoordCols |->
    IF c = "RAJ2000" THEN 36000 ELSE IF c = "DEJ2000" THEN -7200
    ELSE IF c = "_RAJ2000" THEN 36001 ELSE -7201]

BandSet == {Bands[i] : i \in DOMAIN Bands}

\* The native photometric columns of a catalogue's table.
NativeCols(catalog) ==
    IF catalog \in {"ps1", "atlas"} THEN {"gmag", "rmag", "imag", "zmag"}
    ELSE IF catalog = "gaiadr2" THEN {"Gmag", "BPmag", "RPmag", "E_BR_RP_"}
    ELSE IF catalog = "skymapper"
    THEN {"uPSF", "gPSF", "rPSF", "iPSF", "zPSF"}
    ELSE IF catalog = "apass"
    THEN {"g_mag", "r_mag", "i_mag", "e_r_mag", "e_i_mag", "Bmag", "Vmag"}
    ELSE IF catalog = "gaiadr3syn"
    THEN {"gmag", "rmag", "imag", "zmag"}
         \cup {"F" \o b : b \in BandSet} \cup {"e_F" \o b : b \in BandSet}
    ELSE {"gmag", "rmag"}

\* Rows of 'ps1' and 'atlas': every colour index on its lower bound, inside
\* its range and on its upper bound.
PS1Rows ==
    {[c \in NativeCols("ps1") |->
        IF c = "zmag" THEN 15000
        ELSE IF c = "imag" THEN 15000 + iz
        ELSE IF c = "rmag" THEN 15000 + iz + ri
        ELSE 15000 + iz + ri + gr] :
     gr \in {-500, 1000, 2500}, ri \in {-500, 700, 2000},
     iz \in {-500, 300, 1000}}

\* Rows of 'gaiadr2': G below, on, between and above the limits 2, 6, 16.
GaiaRows ==
    {[c \in NativeCols("gaiadr2") |->
        IF c = "Gmag" THEN G
        ELSE IF c = "BPmag" THEN G + 300
        ELSE IF c = "RPmag" THEN G - 500
        ELSE 1250] :
     G \in {1500, 2000, 4000, 5995, 6000, 10000, 16000, 16010}}

RowPool(catalog) ==
    IF catalog \in {"ps1", "atlas"} THEN PS1Rows
    ELSE IF catalog = "gaiadr2" THEN GaiaRows
    ELSE IF catalog = "gaiadr3syn"
    THEN {[c \in NativeCols(catalog) |->
            IF c \in {"F" \o b : b \in BandSet} THEN 1000 * f
            ELSE IF c \in {"e_F" \o b : b \in BandSet} THEN 10
            ELSE IF c = "gmag" THEN 17000 ELSE 16400] : f \in {1, 5}}
    ELSE {[c \in NativeCols(catalog) |->
            IF c \in {"e_r_mag", "e_i_mag"} THEN 20
            ELSE IF c \in {"gmag", "g_mag", "gPSF", "Bmag"} THEN m + 600
            ELSE m] : m \in {15000, 17300}}

\* The rows of a received table: up to MaxRows rows of the pool.
RowSeqs(catalog) ==
    UNION {[1..n -> RowPool(catalog)] : n \in 0..MaxRows}

\* A table of the catalogue with the coordinate columns cc.
MkTable(catalog, cc, rows) ==
    Table(NativeCols(catalog) \cup cc,
          [i \in DOMAIN rows |->
              [c \in NativeCols(catalog) \cup cc |->
                  IF c \in cc THEN CoordValue[c] ELSE rows[i][c]]],
          {})

TypicalRow(catalog) == CHOOSE r \in RowPool(catalog) : TRUE

\* The tables the service sends for a catalogue: any rows with the usual
\* coordinate columns, and one row with any combination of the four
\* coordinate columns.
Tables(catalog) ==
    {MkTable(catalog, {"RAJ2000", "DEJ2000"}, rs) : rs \in RowSeqs(catalog)}
    \cup {MkTable(catalog, cc, <<TypicalRow(catalog)>>) : cc \in SUBSET CoordCols}

\* What query_region answers: nothing at all, a list of 0..MaxTables
\* tables, or an exception.
VizierResponses(catalog) ==
    {None}
    \cup {TableList(<<>>)}
    \cup {TableList(<<t>>) : t \in Tables(catalog)}
    \cup {TableList([i \in 1..n |->
                MkTable(catalog, {"RAJ2000", "DEJ2000"}, <<>>)]) :
          n \in 2..MaxTables}
    \cup {Raise(e) : e \in ServiceErrors}

-----------------------------------------------------------------------------
(* get_cat_vizier *)

\* The arguments of the calls of the model, the catalogue selector apart.
\* ra0, dec0 and sr0 are in arcseconds.
VizierCallArgs ==
    {[ra0 |-> 36000, dec0 |-> -7200, sr0 |-> 1800, limit |-> -1,
      filters |-> {}, extra |-> <<>>, verbose |-> FALSE],
     [ra0 |-> 720000, dec0 |-> 162000, sr0 |-> 600, limit |-> 100,
      filters |-> {<<"rmag", "<19">>}, extra |-> <<"pmRA">>,
      verbose |-> TRUE]}

\* Line 64 and its uses: log prints in verbose mode only.
log(out, verbose, msg) == IF verbose THEN Append(out, msg) ELSE out

\* Lines 84 and 87: the query sent to Vizier.
vizier_query(a, l, cache) ==
    [service |-> "Vizier.query_region", row_limit |-> a.limit,
     columns |-> l.columns, column_filters |-> a.filters,
     coord |-> <<a.ra0, a.dec0>>, radius |-> a.sr0,
     catalog |-> l.vizier_id, cache |-> cache]

\* A faulty variant of not_single: only "not cats".
not_single_empty(c) == c = None \/ Len(c.tables) = 0

\* Lines 86 and 89: "not cats or not len(cats) == 1".
not_single(c) ==
    (c = None \/ Len(c.tables) = 0) \/ ~(Len(c.tables) = 1)

\* Lines 68-81: the call, up to the first query.
get_cat_vizier_call ==
    /\ pc = "idle"
    /\ \E a \in VizierCallArgs, catalog \in CatalogSelectors :
        LET columns0 == <<"*", "RAJ2000", "DEJ2000", "e_RAJ2000", "e_DEJ2000">>
                        \o a.extra
            l == IF catalog \in DOMAIN catalogs
                 THEN [vizier_id |-> catalogs[catalog].vizier,
                       name |-> catalogs[catalog].name,
                       columns |-> columns0 \o catalogs[catalog].extra]
                 ELSE [vizier_id |-> catalog, name |-> catalog,
                       columns |-> columns0]
        IN  /\ fn' = "get_cat_vizier"
            /\ args' = [ra0 |-> a.ra0, dec0 |-> a.dec0, sr0 |-> a.sr0,
                        catalog |-> catalog, limit |-> a.limit,
                        filters |-> a.filters, extra |-> a.extra,
                        verbose |-> a.verbose]
            /\ locals' = l
            /\ printed' =
                 log(log(log(printed, a.verbose,
                     <<"Requesting from VizieR:", l.vizier_id>>),
                     a.verbose, <<"Center:", a.ra0, a.dec0>>),
                     a.verbose, <<"Filters:">>)
    /\ pc' = "vizier_first"
    /\ outcome' = "running"
    /\ UNCHANGED <<queries, responses, cats, xcat, nmatch, result, exc>>

\* Lines 83-86: the first query.
vizier_first ==
    /\ pc = "vizier_first"
    /\ \E r \in VizierResponses(args.catalog) :
        /\ queries' = Append(queries, vizier_query(args, locals, TRUE))
        /\ responses' = Append(responses, r)
        /\ IF r.kind = "raise"
           THEN /\ outcome' = "raised"
                /\ exc' = r.exc
                /\ pc' = "done"
                /\ cats' = cats
           ELSE /\ cats' = r
                /\ pc' = IF not_single(r) THEN "vizier_retry"
                         ELSE "vizier_table"
                /\ UNCHANGED <<outcome, exc>>
    /\ UNCHANGED <<fn, args, locals, xcat, nmatch, printed, result>>

\* Lines 87-91: the retry, and the failure of the call.
vizier_retry ==
    /\ pc = "vizier_retry"
    /\ \E r \in VizierResponses(args.catalog) :
        /\ queries' = Append(queries, vizier_query(args, locals, FALSE))
        /\ responses' = Append(responses, r)
        /\ IF r.kind = "raise"
           THEN /\ outcome' = "raised"
                /\ exc' = r.exc
                /\ pc' = "done"
                /\ UNCHANGED <<cats, printed, result>>
           ELSE /\ cats' = r
                /\ IF not_single(r)
                   THEN /\ printed' = Append(printed,
                              <<"Error requesting catalogue", args.catalog>>)
                        /\ result' = None
                        /\ outcome' = "returned"
                        /\ pc' = "done"
                   ELSE /\ pc' = "vizier_table"
                        /\ UNCHANGED <<printed, result, outcome>>
                /\ exc' = exc
    /\ UNCHANGED <<fn, args, locals, xcat, nmatch>>

\* Lines 93-208: the single table, its metadata, the coordinate columns,
\* the augmentation, the return.
vizier_table ==
    /\ pc = "vizier_table"
    /\ LET cat0 == cats.tables[1]
           cat1 == [cat0 EXCEPT !.meta =
                      {kv \in @ : kv[1] \notin {"vizier_id", "name"}}
                      \cup {<<"vizier_id", locals.vizier_id>>,
                            <<"name", locals.name>>}]
           cat2 == fix_radec(cat1)
       IN  /\ printed' = log(printed, args.verbose,
                             <<"Got", Len(cat1.rows), Cardinality(cat1.cols)>>)
           /\ IF cat2.kind = "raise"
              THEN /\ outcome' = "raised"
                   /\ exc' = cat2.exc
                   /\ UNCHANGED <<result, locals>>
              ELSE /\ outcome' = "returned"
                   /\ result' = augment(args.catalog, cat2)
                   /\ locals' = IF args.catalog = "gaiadr2"
                                THEN [vizier_id |-> locals.vizier_id,
                                      name |-> locals.name,
                                      columns |-> locals.columns,
                                      g |-> gaia_g(cat2)]
                                ELSE locals
                   /\ exc' = exc
    /\ pc' = "done"
    /\ UNCHANGED <<fn, args, queries, responses, cats, xcat, nmatch>>

-----------------------------------------------------------------------------
(* Object lists and sky positions of the cross-matching routines *)

\* Largest number of rows of an ephemeris table sent by SkyBoT.
MaxEph == 2

\* Positions are on the equator (dec = 0), right ascensions in arcseconds:
\* the great-circle distance of two positions is the difference of their
\* right ascensions.
ObjRA == {0, 12, 40}

EphRA == {5, 27, 70}

\* The identifier of the k-th object of a list.
ObjId(k) == 100 - 7 * k

\* Object lists: 'from' to MaxObj objects at different positions, with the
\* columns col_ra, col_dec and col_id.
ObjLists(from) ==
    UNION {{[k \in 1..n |-> [ra |-> f[k], dec |-> 0, id |-> ObjId(k)]] :
            f \in {g \in [1..n -> ObjRA] :
                    \A a, b \in 1..n : a # b => g[a] # g[b]}} :
           n \in from..MaxObj}

\* The cross-match radii of the calls, in arcseconds (the default of
\* xmatch_skybot is 10/3600 degrees).
Radii == {3, 10, 20}

abs(x) == IF x < 0 THEN -x ELSE x

\* Great-circle distance of two positions.
dist(ra1, dec1, ra2, dec2) == abs(ra1 - ra2) + abs(dec1 - dec2)

\* The sequence of the elements of a set of integers, ascending.
RECURSIVE Ascending(_)
Ascending(S) ==
    IF S = {} THEN <<>>
    ELSE LET m == CHOOSE x \in S : \A y \in S : x <= y
         IN  <<m>> \o Ascending(S \ {m})

\* astrometry.get_objects_center: a centre and a radius covering all the
\* objects of the list.
get_objects_center(obj) ==
    LET lo == CHOOSE x \in {obj[k].ra : k \in DOMAIN obj} :
                \A k \in DOMAIN obj : x <= obj[k].ra
        hi == CHOOSE x \in {obj[k].ra : k \in DOMAIN obj} :
                \A k \in DOMAIN obj : x >= obj[k].ra
        ra0 == (lo + hi) \div 2
    IN  [ra0 |-> ra0, dec0 |-> 0, sr0 |-> hi - ra0]

\* astrometry.spherical_match(ra1, dec1, ra2, dec2, sr): nearest-neighbour
\* matching.  Every position of the second list with a position of the
\* first list within sr is paired with the nearest of them.  The value is
\* the set of the answers it may give (more than one only when two
\* positions of the first list are equally near): each a sequence of pairs
\* <<index in the first list, index in the second list>>.
spherical_match(first, second, sr) ==
    LET d(o, c) == dist(first[o].ra, first[o].dec, second[c].ra, second[c].dec)
        near(c) == {o \in DOMAIN first : d(o, c) <= sr}
        nearest(c) == {o \in near(c) : \A q \in near(c) : d(o, c) <= d(q, c)}
        matched == {c \in DOMAIN second : near(c) # {}}
        order == Ascending(matched)
    IN  {[k \in DOMAIN order |-> <<f[order[k]], order[k]>>] :
         f \in {g \in [matched -> DOMAIN first] :
                 \A c \in matched : g[c] \in nearest(c)}}

-----------------------------------------------------------------------------
(* xmatch_objects *)

\* What XMatch answers: a table of matched objects, or an exception.
XMatchResponses(obj) ==
    {Table({"ra", "dec", "id", "angDist"},
           [k \in 1..n |-> [ra |-> obj[k].ra, dec |-> obj[k].dec,
                            id |-> obj[k].id, angDist |-> 1]],
           {}) : n \in 0..Len(obj)}
    \cup {Raise(e) : e \in ServiceErrors}

\* Lines 223-226: the call, up to the query.
xmatch_objects_call ==
    /\ pc = "idle"
    /\ \E obj \in ObjLists(0), catalog \in {"ps1", "sdss", RawCatalog},
          sr \in Radii :
        /\ args' = [obj |-> obj, catalog |-> catalog, sr |-> sr,
                    col_ra |-> "ra", col_dec |-> "dec"]
        /\ locals' = [vizier_id |-> IF catalog \in DOMAIN catalogs
                                    THEN catalogs[catalog].vizier
                                    ELSE catalog]
    /\ fn' = "xmatch_objects"
    /\ pc' = "xmatch_query"
    /\ outcome' = "running"
    /\ UNCHANGED <<queries, responses, cats, xcat, nmatch, printed, result,
                   exc>>

\* Lines 228-230: the query and the return of its answer.
xmatch_query ==
    /\ pc = "xmatch_query"
    /\ \E r \in XMatchResponses(args.obj) :
        /\ queries' = Append(queries,
              [service |-> "XMatch.query", cat1 |-> args.obj,
               cat2 |-> "vizier:" \o locals.vizier_id,
               max_distance |-> args.sr, colRA1 |-> args.col_ra,
               colDec1 |-> args.col_dec])
        /\ responses' = Append(responses, r)
        /\ IF r.kind = "raise"
           THEN outcome' = "raised" /\ exc' = r.exc /\ UNCHANGED <<xcat, result>>
           ELSE outcome' = "returned" /\ xcat' = r /\ result' = r /\ exc' = exc
    /\ pc' = "done"
    /\ UNCHANGED <<fn, args, locals, cats, nmatch, printed>>

-----------------------------------------------------------------------------
(* xmatch_skybot *)

\* The radius of the local cross-match of line 259, 10/3600 degrees, in
\* arcseconds.
MatchRadius == 10

\* What SkyBoT answers to a cone search: the ephemeris rows of 1..MaxEph
\* solar system objects, or an exception.
SkybotResponses ==
    UNION {{Table({"Name", "RA", "DEC"},
                  [c \in 1..n |-> [Name |-> c, RA |-> f[c], DEC |-> 0]],
                  {}) :
            f \in {g \in [1..n -> EphRA] :
                    \A a, b \in 1..n : a # b => g[a] # g[b]}} :
           n \in 1..MaxEph}
    \cup {Raise(e) : e \in ServiceErrors}

\* A faulty variant of skybot_caught: "except Exception".
skybot_caught_broad == {"Exception"}

\* Line 254: the exception classes of the except clause.
skybot_caught == {"RuntimeError", "KeyError", "ConnectionError", "OSError"}

\* Whether the except clause of line 254 catches an exception of class e.
except_matches(e) == \E cls \in skybot_caught : IsInstance(e, cls)

\* Line 249: the call, up to the cone search.
xmatch_skybot_call ==
    /\ pc = "idle"
    /\ \E obj \in ObjLists(1), sr \in Radii :
        /\ args' = [obj |-> obj, sr |-> sr, time |-> "2020-01-01",
                    col_ra |-> "ra", col_dec |-> "dec", col_id |-> "id"]
        /\ locals' = get_objects_center(obj)
    /\ fn' = "xmatch_skybot"
    /\ pc' = "skybot_cone_search"
    /\ outcome' = "running"
    /\ UNCHANGED <<queries, responses, cats, xcat, nmatch, printed, result,
                   exc>>

\* Lines 251-256: the cone search and its except clause.
skybot_cone_search ==
    /\ pc = "skybot_cone_search"
    /\ \E r \in SkybotResponses :
        /\ queries' = Append(queries,
              [service |-> "Skybot.cone_search",
               coord |-> <<locals.ra0, locals.dec0>>,
               radius |-> locals.sr0 + 2 * args.sr, epoch |-> args.time])
        /\ responses' = Append(responses, r)
        /\ IF r.kind = "raise"
           THEN /\ IF except_matches(r.exc)
                   THEN outcome' = "returned" /\ result' = None /\ exc' = exc
                   ELSE outcome' = "raised" /\ exc' = r.exc /\ result' = result
                /\ pc' = "done"
                /\ xcat' = xcat
           ELSE /\ xcat' = r
                /\ pc' = "skybot_match"
                /\ UNCHANGED <<outcome, result, exc>>
    /\ UNCHANGED <<fn, args, locals, cats, nmatch, printed>>

\* Lines 262-263: the new identifier column, every cell masked.
masked_column(n) == [c \in 1..n |-> [value |-> n, mask |-> TRUE]]

\* Line 264: xcat[col_id][cidx] = obj[col_id][oidx], the pairs taken in
\* order (a cell that is assigned to is no longer masked).  Line 265 sets
\* the mask of a copy, xcat[col_id][cidx], and changes nothing.
RECURSIVE assign_ids(_, _, _)
assign_ids(col, obj, pairs) ==
    IF pairs = <<>> THEN col
    ELSE assign_ids(
            [col EXCEPT ![Head(pairs)[2]] =
                [value |-> obj[Head(pairs)[1]].id, mask |-> FALSE]],
            obj, Tail(pairs))

\* The positions of the rows of the ephemeris table.
eph_positions(t) == [c \in DOMAIN t.rows |-> [ra |-> t.rows[c].RA,
                                               dec |-> t.rows[c].DEC]]

\* Line 259: the radius handed to spherical_match.
match_radius(sr) == MatchRadius

\* Lines 258-267: the local cross-match and the identifier column.
skybot_match ==
    /\ pc = "skybot_match"
    /\ \E pairs \in spherical_match(args.obj, eph_positions(xcat),
                                    match_radius(args.sr)) :
        LET col == assign_ids(masked_column(Len(xcat.rows)), args.obj, pairs)
            t == WithColumn(xcat, args.col_id, col)
        IN  /\ xcat' = t
            /\ result' = t
    /\ nmatch' = nmatch + 1
    /\ outcome' = "returned"
    /\ pc' = "done"
    /\ UNCHANGED <<fn, args, locals, queries, responses, cats, printed, exc>>

-----------------------------------------------------------------------------
(* xmatch_ned *)

\* What NED answers to a point query: nothing, a table of 0..MaxRows
\* entries, or an exception.
NedResponses ==
    {None}
    \cup UNION {{Table({"Object Name", "Redshift"},
                       [k \in 1..n |-> [c \in {"Object Name", "Redshift"} |->
                            IF c = "Redshift" THEN 10 * f[k] ELSE f[k]]],
                       {}) : f \in [1..n -> {1, 2}]} : n \in 0..MaxRows}
    \cup {Raise(e) : e \in ServiceErrors}

\* "if res:" of line 289, and "if xcat:" of line 294.
truthy(v) ==
    IF v.kind = "None" THEN FALSE
    ELSE IF v.kind = "Table" THEN Len(v.rows) > 0
    ELSE Len(v.items) > 0

PyList(items) == [kind |-> "list", items |-> items]

\* astropy.table.vstack(tables, join_type='exact'): the rows of the tables
\* one after the other; tables with different columns are an error.
RECURSIVE concat_rows(_)
concat_rows(tables) ==
    IF tables = <<>> THEN <<>>
    ELSE Head(tables).rows \o concat_rows(Tail(tables))

vstack(tables) ==
    IF \E a, b \in DOMAIN tables : tables[a].cols # tables[b].cols
    THEN Raise("TableMergeError")
    ELSE Table(tables[1].cols, concat_rows(tables), tables[1].meta)

\* A faulty variant of ned_append: the result is put in front of the list.
ned_prepend(items, res, id) ==
    <<WithColumn(res, "id", [k \in DOMAIN res.rows |-> id])>> \o items

\* Lines 290-292: res['id'] = row[col_id]; xcat.append(res).
ned_append(items, res, id) ==
    Append(items, WithColumn(res, "id", [k \in DOMAIN res.rows |-> id]))

\* Line 283: the call, up to the loop.
xmatch_ned_call ==
    /\ pc = "idle"
    /\ \E obj \in ObjLists(0), sr \in {3} :
        args' = [obj |-> obj, sr |-> sr, col_ra |-> "ra", col_dec |-> "dec",
                 col_id |-> "id"]
    /\ locals' = [row |-> 1]
    /\ xcat' = PyList(<<>>)
    /\ fn' = "xmatch_ned"
    /\ pc' = "ned_loop"
    /\ outcome' = "running"
    /\ UNCHANGED <<queries, responses, cats, nmatch, printed, result, exc>>

\* Lines 286-292: one turn of the loop.
ned_query ==
    /\ pc = "ned_loop"
    /\ locals.row <= Len(args.obj)
    /\ LET row == args.obj[locals.row]
       IN  \E res \in NedResponses :
            /\ queries' = Append(queries,
                  [service |-> "Ned.query_region",
                   coord |-> <<row[args.col_ra], row[args.col_dec]>>,
                   radius |-> args.sr])
            /\ responses' = Append(responses, res)
            /\ IF res.kind = "raise"
               THEN /\ outcome' = "raised"
                    /\ exc' = res.exc
                    /\ pc' = "done"
                    /\ UNCHANGED <<xcat, locals>>
               ELSE /\ xcat' =
                        IF truthy(res)
                        THEN PyList(ned_append(xcat.items, res,
                                                row[args.col_id]))
                        ELSE xcat
                    /\ locals' = [row |-> locals.row + 1]
                    /\ UNCHANGED <<outcome, exc, pc>>
    /\ UNCHANGED <<fn, args, cats, nmatch, printed, result>>

\* Lines 294-297: the end of the loop.
ned_return ==
    /\ pc = "ned_loop"
    /\ locals.row > Len(args.obj)
    /\ LET v == IF truthy(xcat) THEN vstack(xcat.items) ELSE xcat
       IN  IF v.kind = "raise"
           THEN outcome' = "raised" /\ exc' = v.exc /\ UNCHANGED <<xcat, result>>
           ELSE outcome' = "returned" /\ xcat' = v /\ result' = v /\ exc' = exc
    /\ pc' = "done"
    /\ UNCHANGED <<fn, args, locals, queries, responses, cats, nmatch,
                   printed>>

-----------------------------------------------------------------------------
(* The specification *)

Init ==
    /\ pc = "idle"
    /\ fn = "none"
    /\ args = None
    /\ locals = None
    /\ queries = <<>>
    /\ responses = <<>>
    /\ cats = None
    /\ xcat = None
    /\ nmatch = 0
    /\ printed = <<>>
    /\ outcome = "none"
    /\ result = None
    /\ exc = "none"

\* The call is over and its caller goes on: the next call starts afresh.
call_over ==
    /\ pc = "done"
    /\ pc' = "idle"
    /\ fn' = "none"
    /\ args' = None
    /\ locals' = None
    /\ queries' = <<>>
    /\ responses' = <<>>
    /\ cats' = None
    /\ xcat' = None
    /\ nmatch' = 0
    /\ printed' = <<>>
    /\ outcome' = "none"
    /\ result' = None
    /\ exc' = "none"

Next ==
    \/ get_cat_vizier_call
    \/ vizier_first
    \/ vizier_retry
    \/ vizier_table
    \/ xmatch_objects_call
    \/ xmatch_query
    \/ xmatch_skybot_call
    \/ skybot_cone_search
    \/ skybot_match
    \/ xmatch_ned_call
    \/ ned_query
    \/ ned_return
    \/ call_over

Spec == Init /\ [][Next]_vars

-----------------------------------------------------------------------------
(* Properties of get_cat_vizier *)

\* A call of get_cat_vizier, and such a call that is over.
InVizier == fn = "get_cat_vizier"

VizierOver == InVizier /\ pc = "done"

\* An answer with exactly one result set.
OneResultSet(r) == r.kind = "TableList" /\ Len(r.tables) = 1

\* An answer that is no exception and has not exactly one result set.
Failed(r) == r.kind # "raise" /\ ~OneResultSet(r)

\* The call returned a table; Received is the table as the service sent it.
VizierReturnedTable ==
    VizierOver /\ outcome = "returned" /\ result.kind = "Table"

Received == cats.tables[1]

\* C1: the remote query is issued at most twice per call; the second query
\* is issued if and only if the first answer was not exactly one result
\* set; it is made with cache = False and with the position, radius and
\* catalogue identifier of the first; there is no third query.
C1_AtMostOneUncachedRetry ==
    InVizier =>
        /\ Len(queries) <= 2
        /\ Len(queries) = 2 => Failed(responses[1])
        /\ (Len(responses) >= 1 /\ Failed(responses[1]) /\ pc # "vizier_retry")
              => Len(queries) = 2
        /\ Len(queries) >= 1 =>
              /\ queries[1].coord = <<args.ra0, args.dec0>>
              /\ queries[1].radius = args.sr0
              /\ queries[1].catalog =
                    (IF args.catalog \in DOMAIN catalogs
                     THEN catalogs[args.catalog].vizier ELSE args.catalog)
        /\ Len(queries) = 2 =>
              /\ queries[2].cache = FALSE
              /\ queries[2].coord = queries[1].coord
              /\ queries[2].radius = queries[1].radius
              /\ queries[2].catalog = queries[1].catalog

\* The retry was made after a first answer of several tables, and it gave
\* the table of the call.
C1_Witness ==
    /\ VizierReturnedTable
    /\ Len(queries) = 2
    /\ responses[1].kind = "TableList" /\ Len(responses[1].tables) = 2
    /\ queries[2].cache = FALSE

\* C2: a call whose queries all answered never ends in an exception; it
\* returns None, with a printed message, exactly when both the first
\* attempt and the uncached retry failed to yield exactly one result set,
\* and in every other case it returns the single result table (the first
\* attempt's if that succeeded, otherwise the retry's).
C2_NoneExactlyOnRepeatedFailure ==
    (VizierOver /\ \A k \in DOMAIN responses : responses[k].kind # "raise") =>
        LET bothFailed == /\ Len(responses) = 2
                          /\ Failed(responses[1])
                          /\ Failed(responses[2])
            sent == IF OneResultSet(responses[1])
                    THEN responses[1].tables[1]
                    ELSE responses[Len(responses)].tables[1]
        IN  /\ outcome = "returned"
            /\ (result = None) <=> bothFailed
            /\ bothFailed =>
                  \E k \in DOMAIN printed :
                      printed[k] = <<"Error requesting catalogue", args.catalog>>
            /\ ~bothFailed =>
                  /\ result.kind = "Table"
                  /\ Len(result.rows) = Len(sent.rows)
                  /\ \A i \in DOMAIN sent.rows :
                        \A c \in sent.cols \ CoordCols :
                            c \in result.cols
                            /\ result.rows[i][c] = sent.rows[i][c]

\* C3: for 'ps1' and 'atlas', 'good' is true in a row if and only if
\*   -0.5 < g-r < 2.5  and  -0.5 < r-i < 2.0  and  -0.5 < i-z < 1.0 .
C3_GoodIffColoursInRange ==
    (VizierReturnedTable /\ args.catalog \in {"ps1", "atlas"}) =>
        /\ Len(result.rows) = Len(Received.rows)
        /\ \A i \in DOMAIN Received.rows :
              LET r == Received.rows[i]
                  gr == r.gmag - r.rmag
                  ri == r.rmag - r.imag
                  iz == r.imag - r.zmag
              IN  result.rows[i].good = TRUE
                  <=> /\ -500 < gr /\ gr < 2500
                      /\ -500 < ri /\ ri < 2000
                      /\ -500 < iz /\ iz < 1000

\* A row with g-r exactly on its upper bound and the two other indices
\* inside their ranges is flagged not good.
C3_Witness ==
    /\ VizierReturnedTable
    /\ args.catalog = "atlas"
    /\ \E i \in DOMAIN Received.rows :
        LET r == Received.rows[i]
        IN  /\ r.gmag - r.rmag = 2500
            /\ r.rmag - r.imag = 700
            /\ r.imag - r.zmag = 300
            /\ result.rows[i].good = FALSE

\* The selectors with an augmentation transform.
Augmented ==
    {"ps1", "atlas", "gaiadr2", "skymapper", "apass", "gaiadr3syn"}

\* C8 as stated: for a selector without augmentation transform the table
\* returned is the table received, no column added, removed, renamed or
\* changed.
C8_ReturnedAsReceived ==
    (VizierReturnedTable /\ args.catalog \notin Augmented) =>
        /\ result.cols = Received.cols
        /\ result.rows = Received.rows

\* C8 as amended: for a selector without augmentation transform the table
\* returned has the columns and values of the table received, except that
\* '_RAJ2000' and '_DEJ2000' are renamed to 'RAJ2000' and 'DEJ2000' (values
\* kept) when the received table has both and has no 'RAJ2000'.
C8_ReturnedAsReceivedUpToCoordinateFix ==
    (VizierReturnedTable /\ args.catalog \notin Augmented) =>
        LET t == Received
            fixed == {"_RAJ2000", "_DEJ2000"} \subseteq t.cols
                     /\ "RAJ2000" \notin t.cols
            kept == IF fixed THEN t.cols \ {"_RAJ2000", "_DEJ2000"} ELSE t.cols
        IN  /\ result.cols =
                  kept \cup (IF fixed THEN {"RAJ2000", "DEJ2000"} ELSE {})
            /\ Len(result.rows) = Len(t.rows)
            /\ \A i \in DOMAIN t.rows :
                  /\ DOMAIN result.rows[i] = result.cols
                  /\ \A c \in kept : result.rows[i][c] = t.rows[i][c]
                  /\ fixed =>
                        /\ result.rows[i]["RAJ2000"] = t.rows[i]["_RAJ2000"]
                        /\ result.rows[i]["DEJ2000"] = t.rows[i]["_DEJ2000"]

\* An 'sdss' table received with '_RAJ2000' and '_DEJ2000' only is returned
\* with the two columns renamed.
C8_Witness ==
    /\ VizierReturnedTable
    /\ args.catalog = "sdss"
    /\ Received.cols \cap CoordCols = {"_RAJ2000", "_DEJ2000"}
    /\ result.cols \cap CoordCols = {"RAJ2000", "DEJ2000"}
    /\ Len(result.rows) = 1

\* C9: whenever the table received contains both '_RAJ2000' and '_DEJ2000',
\* the call returns a table that contains both 'RAJ2000' and 'DEJ2000',
\* whether or not the received table has 'RAJ2000' or 'DEJ2000', and the
\* normalization never fails.
C9_CanonicalCoordinatePair ==
    (VizierOver /\ cats.kind = "TableList" /\ OneResultSet(cats)
        /\ {"_RAJ2000", "_DEJ2000"} \subseteq Received.cols) =>
        /\ outcome = "returned"
        /\ {"RAJ2000", "DEJ2000"} \subseteq result.cols

\* C10: in the G correction of 'gaiadr2' the three regimes 2 < G < 6,
\* 6 < G < 16 and G > 16 are pairwise disjoint and selected from the row's
\* original G: the corrected value is that of the one regime the original G
\* is in, and the original G when G <= 2, G = 6 or G = 16.
C10_OneRegimeFromOriginalG ==
    (VizierReturnedTable /\ args.catalog = "gaiadr2") =>
        /\ DOMAIN locals.g = DOMAIN Received.rows
        /\ \A i \in DOMAIN Received.rows :
              LET G == Received.rows[i].Gmag
                  bright == 2000 < G /\ G < 6000
                  mid == 6000 < G /\ G < 16000
                  faint == 16000 < G
              IN  /\ ~(bright /\ mid) /\ ~(bright /\ faint) /\ ~(mid /\ faint)
                  /\ bright => locals.g[i] = gcorr_bright(ToFine(G))
                  /\ mid => locals.g[i] = gcorr_mid(ToFine(G))
                  /\ faint => locals.g[i] = gcorr_faint(ToFine(G))
                  /\ (G <= 2000 \/ G = 6000 \/ G = 16000)
                        => locals.g[i] = ToFine(G)

\* A row of the bright regime whose corrected G is above 6, the limit of
\* the next regime.
C10_Witness ==
    /\ VizierReturnedTable
    /\ args.catalog = "gaiadr2"
    /\ \E i \in DOMAIN Received.rows :
        /\ Received.rows[i].Gmag < 6000
        /\ locals.g[i] > ToFine(6000)

-----------------------------------------------------------------------------
(* Properties of the cross-matching routines *)

SkybotReturnedTable ==
    fn = "xmatch_skybot" /\ pc = "done" /\ outcome = "returned"
    /\ result.kind = "Table"

\* The objects of the call within radius sr of row c of the returned table.
Within(c, sr) ==
    {o \in DOMAIN args.obj :
        dist(args.obj[o].ra, args.obj[o].dec,
             result.rows[c].RA, result.rows[c].DEC) <= sr}

\* C4: every returned row with an input object within the tolerance of the
\* call carries the identifier of its nearest input object, and every
\* returned row without one has col_id masked.
C4_NearestIdentifierWithinTolerance ==
    SkybotReturnedTable =>
        \A c \in DOMAIN result.rows :
            LET near == Within(c, args.sr)
                cell == result.rows[c][args.col_id]
            IN  IF near = {} THEN cell.mask
                ELSE /\ ~cell.mask
                     /\ \E o \in near :
                          /\ cell.value = args.obj[o].id
                          /\ \A q \in near :
                                dist(args.obj[o].ra, args.obj[o].dec,
                                     result.rows[c].RA, result.rows[c].DEC)
                                <= dist(args.obj[q].ra, args.obj[q].dec,
                                        result.rows[c].RA, result.rows[c].DEC)

\* C5: the local cross-match uses the radius sr of the call: a row has an
\* identifier if and only if some input object lies within sr of it.
C5_MatchRadiusIsCallerRadius ==
    SkybotReturnedTable =>
        \A c \in DOMAIN result.rows :
            ~result.rows[c][args.col_id].mask <=> Within(c, args.sr) # {}

\* The categories of errors the claim names: runtime, KeyError, connection
\* and I/O.
NamedCategory(e) ==
    \/ IsInstance(e, "RuntimeError")
    \/ IsInstance(e, "KeyError")
    \/ IsInstance(e, "ConnectionError")
    \/ IsInstance(e, "OSError")

\* C6: an error of the cone search of a named category makes xmatch_skybot
\* return None without matching and without raising; any other error of
\* the cone search propagates; an error of Vizier, XMatch or NED always
\* propagates.
C6_OnlySkybotErrorsAreCaught ==
    \A k \in DOMAIN responses :
        responses[k].kind = "raise" =>
            /\ pc = "done"
            /\ k = Len(responses)
            /\ IF fn = "xmatch_skybot" /\ NamedCategory(responses[k].exc)
               THEN outcome = "returned" /\ result = None /\ nmatch = 0
               ELSE outcome = "raised" /\ exc = responses[k].exc
                    /\ nmatch = 0

\* A timeout of the cone search (an I/O error) ends in None.
C6_Witness ==
    /\ fn = "xmatch_skybot"
    /\ pc = "done"
    /\ responses = <<Raise("TimeoutError")>>
    /\ outcome = "returned"
    /\ result = None

\* The rows the answers to the queries k, k+1, ... contribute: those of
\* each non-empty answer, with the identifier of the object asked for.
RECURSIVE NedRowsFrom(_)
NedRowsFrom(k) ==
    IF k > Len(responses) THEN <<>>
    ELSE LET res == responses[k]
             rows == IF res.kind = "Table" THEN res.rows ELSE <<>>
         IN  [j \in DOMAIN rows |->
                [c \in DOMAIN rows[j] \cup {"id"} |->
                    IF c = "id" THEN args.obj[k][args.col_id]
                    ELSE rows[j][c]]]
             \o NedRowsFrom(k + 1)

\* C7: xmatch_ned issues one point query per input object, in the order of
\* the input rows, and its output is the concatenation, in that order, of
\* the non-empty answers, every row with the identifier of the object
\* whose query returned it.
C7_OneQueryPerObjectResultsInOrder ==
    fn = "xmatch_ned" =>
        /\ Len(queries) <= Len(args.obj)
        /\ \A k \in DOMAIN queries :
              queries[k].coord = <<args.obj[k].ra, args.obj[k].dec>>
        /\ (pc = "done" /\ outcome = "returned") =>
              /\ Len(queries) = Len(args.obj)
              /\ (IF result.kind = "Table" THEN result.rows ELSE result.items)
                    = NedRowsFrom(1)

\* Two objects with different non-empty answers.
C7_Witness ==
    /\ fn = "xmatch_ned" /\ pc = "done" /\ outcome = "returned"
    /\ Len(args.obj) = 2
    /\ responses[1].kind = "Table" /\ Len(responses[1].rows) = 1
    /\ responses[2].kind = "Table" /\ Len(responses[2].rows) = 1
    /\ responses[1] # responses[2]
    /\ result.kind = "Table" /\ Len(result.rows) = 2
    /\ result.rows[1].id = args.obj[1].id
    /\ result.rows[2].id = args.obj[2].id

=============================================================================
